---- MODULE Spec2Model ----
(***************************************************************************)
(* ESP32 LED strip firmware (src/src/main.cpp): the line-based command     *)
(* engine (runCommand, applyHexFrame), its two transports (USB serial and  *)
(* the HTTP routes /, /cmd, /frame) and the Wi-Fi station supervision of    *)
(* setup() and loop().                                                      *)
(*                                                                          *)
(* Arduino Strings are sequences of one-character strings.  The strip is    *)
(* the record [leds, bright, shown]: the CRGB buffer, the FastLED           *)
(* brightness and the data last pushed out by FastLED.show().               *)
(***************************************************************************)
EXTENDS Integers, Sequences, FiniteSets, TLC

(***************************************************************************)
(* Compile-time configuration.  The strip length, the line cap and the      *)
(* clock are scaled down; the default brightness is the source's.           *)
(***************************************************************************)
NUM_LEDS == 2
MAX_COMMAND_CHARS == 30
DEFAULT_BRIGHTNESS == 32
WIFI_CONNECT_TIMEOUT_MS == 3
WIFI_RETRY_INTERVAL_MS == 2
\* millis() is an unsigned counter that wraps: values are taken modulo TimeMod
TimeMod == 8

Leds == 0 .. (NUM_LEDS - 1)

(***************************************************************************)
(* String literals of the source.                                           *)
(***************************************************************************)
kPING ==
    <<"P","I","N","G">>
kINFO ==
    <<"I","N","F","O">>
kSHOW ==
    <<"S","H","O","W">>
kCLEAR ==
    <<"C","L","E","A","R">>
kBRIGHT ==
    <<"B","R","I","G","H","T"," ">>
kFILL ==
    <<"F","I","L","L"," ">>
kSET ==
    <<"S","E","T"," ">>
kSETN ==
    <<"S","E","T","N"," ">>
kFRAME ==
    <<"F","R","A","M","E"," ">>
kOK ==
    <<"O","K">>
kERR ==
    <<"E","R","R"," ">>
rInfoLeds ==
    <<"O","K"," ","N","U","M","_","L","E","D","S"," ">>
rInfoBright ==
    <<" ","B","R","I","G","H","T"," ">>
rUsageBright ==
    <<"E","R","R"," ","u","s","a","g","e",":"," ","B","R","I","G","H","T"," ","<","0","-","2","5","5",">">>
rUsageFill ==
    <<"E","R","R"," ","u","s","a","g","e",":"," ","F","I","L","L"," ","<","r",">"," ","<","g",">"," ","<","b",">">>
rUsageSet ==
    <<"E","R","R"," ","u","s","a","g","e",":"," ","S","E","T"," ","<","i","n","d","e","x",">"," ","<","r",">"," ","<","g",">"," ","<","b",">">>
rUsageSetn ==
    <<"E","R","R"," ","u","s","a","g","e",":"," ","S","E","T","N"," ","<","i","n","d","e","x",">"," ","<","r",">"," ","<","g",">"," ","<","b",">">>
rIndexRange ==
    <<"E","R","R"," ","i","n","d","e","x"," ","o","u","t"," ","o","f"," ","r","a","n","g","e">>
rUsageFrame ==
    <<"E","R","R"," ","u","s","a","g","e",":"," ","F","R","A","M","E"," ","<","h","e","x"," ","r","g","b"," ","p","a","y","l","o","a","d"," ","o","f"," ","l","e","n","g","t","h"," ","N","U","M","_","L","E","D","S","*","6",">">>
rUnknown ==
    <<"E","R","R"," ","u","n","k","n","o","w","n"," ","c","o","m","m","a","n","d">>
mLineTooLong ==
    <<"l","i","n","e"," ","t","o","o"," ","l","o","n","g">>
rMissingQ ==
    <<"E","R","R"," ","m","i","s","s","i","n","g"," ","q">>
rMissingBody ==
    <<"E","R","R"," ","m","i","s","s","i","n","g"," ","b","o","d","y">>
rInvalidFrame ==
    <<"E","R","R"," ","i","n","v","a","l","i","d"," ","f","r","a","m","e"," ","p","a","y","l","o","a","d">>
mWarnCreds ==
    <<"W","A","R","N"," ","W","i","-","F","i"," ","c","r","e","d","e","n","t","i","a","l","s"," ","m","i","s","s","i","n","g","."," ","A","d","d"," ","i","n","c","l","u","d","e","/","w","i","f","i","_","s","e","c","r","e","t","s",".","h">>
mRetrying ==
    <<"W","i","-","F","i"," ","d","i","s","c","o","n","n","e","c","t","e","d",","," ","r","e","t","r","y","i","n","g",".",".",".">>
mReady ==
    <<"R","E","A","D","Y">>
mHttpDisabled ==
    <<"H","T","T","P"," ","d","i","s","a","b","l","e","d"," ","u","n","t","i","l"," ","W","i","-","F","i"," ","c","o","n","n","e","c","t","s",".">>
mHttpStarted ==
    <<"H","T","T","P"," ","s","e","r","v","e","r"," ","s","t","a","r","t","e","d",","," ","I","P",":"," ">>
mConnectFailed ==
    <<"E","R","R"," ","W","i","-","F","i"," ","c","o","n","n","e","c","t"," ","f","a","i","l","e","d",","," ","s","t","a","t","u","s","=">>
mConnected ==
    <<"W","i","-","F","i"," ","c","o","n","n","e","c","t","e","d",","," ","I","P",":"," ">>
mConnecting ==
    <<"C","o","n","n","e","c","t","i","n","g"," ","t","o"," ","W","i","-","F","i"," ","S","S","I","D",":"," ">>
mSsidLabel ==
    <<"W","i","-","F","i"," ","S","S","I","D",":"," ">>
mIpLabel ==
    <<"W","i","-","F","i"," ","I","P",":"," ">>
tRootHead ==
    <<"L","E","D"," ","W","a","l","l"," ","E","S","P","3","2"," ","S","T","A"," ","r","e","a","d","y","\n","S","S","I","D",":"," ">>
tRootIp ==
    <<"\n","I","P",":"," ">>
tRootDisc ==
    <<"D","I","S","C","O","N","N","E","C","T","E","D">>
tRootUse ==
    <<"\n","U","s","e"," ","/","c","m","d","?","q","=","P","I","N","G","\n">>
SsidText ==
    <<"w","a","l","l">>
IpText ==
    <<"1","0",".","0",".","0",".","2">>

(***************************************************************************)
(* Arduino String / libc helpers used by the source.                        *)
(***************************************************************************)
LowerChars ==
    <<"a","b","c","d","e","f","g","h","i","j","k","l","m",
      "n","o","p","q","r","s","t","u","v","w","x","y","z">>

UpperChars ==
    <<"A","B","C","D","E","F","G","H","I","J","K","L","M",
      "N","O","P","Q","R","S","T","U","V","W","X","Y","Z">>

DigitChars ==
    <<"0","1","2","3","4","5","6","7","8","9">>

\* lower-case letter |-> upper-case letter
UpperOf == [c \in {LowerChars[i] : i \in 1 .. 26} |->
               UpperChars[CHOOSE i \in 1 .. 26 : LowerChars[i] = c]]

\* decimal digit |-> value
DigitOf == [c \in {DigitChars[i] : i \in 1 .. 10} |->
               (CHOOSE i \in 1 .. 10 : DigitChars[i] = c) - 1]

\* 'A'..'F' |-> 0..5 and 'a'..'f' |-> 0..5
UpperHexOf == [c \in {UpperChars[i] : i \in 1 .. 6} |->
                  (CHOOSE i \in 1 .. 6 : UpperChars[i] = c) - 1]

LowerHexOf == [c \in {LowerChars[i] : i \in 1 .. 6} |->
                  (CHOOSE i \in 1 .. 6 : LowerChars[i] = c) - 1]

SetMin(S) == CHOOSE x \in S : \A y \in S : x <= y

\* isspace() on the characters that occur
IsSpace(c) == c \in {" ", "\t", "\n", "\r"}

IsDigit(c) == c \in DOMAIN DigitOf

\* index of the first non-space character at or after p, Len(s) + 1 if none
RECURSIVE SkipSpace(_, _)
SkipSpace(s, p) ==
    IF p <= Len(s) /\ IsSpace(s[p]) THEN SkipSpace(s, p + 1) ELSE p

\* index of the last non-space character at or before p, 0 if none
RECURSIVE SkipSpaceBack(_, _)
SkipSpaceBack(s, p) ==
    IF p >= 1 /\ IsSpace(s[p]) THEN SkipSpaceBack(s, p - 1) ELSE p

\* String::trim(): drop leading and trailing whitespace
Trim(s) == SubSeq(s, SkipSpace(s, 1), SkipSpaceBack(s, Len(s)))

UpperChar(c) == IF c \in DOMAIN UpperOf THEN UpperOf[c] ELSE c

\* String::toUpperCase()
RECURSIVE ToUpperCase(_)
ToUpperCase(s) ==
    IF s = <<>> THEN <<>> ELSE <<UpperChar(Head(s))>> \o ToUpperCase(Tail(s))

\* String::startsWith(p)
StartsWith(s, p) == Len(s) >= Len(p) /\ SubSeq(s, 1, Len(p)) = p

\* String::substring(from), from counted from 0
Substring(s, from) == SubSeq(s, from + 1, Len(s))

\* String(int) for n >= 0: decimal digits, no padding
RECURSIVE IntToStr(_)
IntToStr(n) ==
    IF n < 10 THEN <<DigitChars[n + 1]>>
    ELSE IntToStr(n \div 10) \o <<DigitChars[(n % 10) + 1]>>

\* n copies of s
RECURSIVE Repeat(_, _)
Repeat(s, n) == IF n <= 0 THEN <<>> ELSE s \o Repeat(s, n - 1)

\* Serial.println(s): the text followed by CR LF
Println(s) == s \o <<"\r", "\n">>

(***************************************************************************)
(* sscanf(cmd, "<KEYWORD> %d ... %d"): white space in the format matches    *)
(* any amount of input white space, %d skips white space, takes an optional *)
(* sign and a non-empty run of digits, and the scan stops at the first      *)
(* conversion that fails.  Whatever follows the last conversion is ignored. *)
(***************************************************************************)
RECURSIVE DigitsEnd(_, _)
DigitsEnd(s, p) ==
    IF p <= Len(s) /\ IsDigit(s[p]) THEN DigitsEnd(s, p + 1) ELSE p

\* value of the digits s[p] .. s[e-1]
RECURSIVE DecValue(_, _, _)
DecValue(s, p, e) ==
    IF p >= e THEN 0
    ELSE (DecValue(s, p, e - 1) * 10) + DigitOf[s[e - 1]]

\* a sign at position q
SignAt(s, q) == q <= Len(s) /\ s[q] \in {"-", "+"}

\* the conversion once white space has been skipped: q is where the number
\* starts, d where its digits start, e where they end
ScanNumber(s, p, q, d, e) ==
    IF e = d THEN [ok |-> FALSE, val |-> 0, next |-> p]
    ELSE [ok |-> TRUE,
          val |-> IF SignAt(s, q) /\ s[q] = "-" THEN 0 - DecValue(s, d, e)
                  ELSE DecValue(s, d, e),
          next |-> e]

ScanSigned(s, p, q, d) == ScanNumber(s, p, q, d, DigitsEnd(s, d))

ScanFrom(s, p, q) == ScanSigned(s, p, q, IF SignAt(s, q) THEN q + 1 ELSE q)

\* one %d conversion at position p
ScanInt(s, p) == ScanFrom(s, p, SkipSpace(s, p))

\* the values of the first conversions that succeed, at most n of them
RECURSIVE ScanInts(_, _, _)
ScanInts(s, p, n) ==
    IF n = 0 THEN <<>>
    ELSE LET r == ScanInt(s, p)
         IN  IF r.ok THEN <<r.val>> \o ScanInts(s, r.next, n - 1) ELSE <<>>

\* sscanf(cmd, keyword followed by n "%d"); cmd is known to start with keyword
Sscanf(cmd, keyword, n) == ScanInts(cmd, Len(keyword), n)

(***************************************************************************)
(* clamp8, hexNibble, parseHexByte                                          *)
(***************************************************************************)
\* clamp8 without the test of line 52
clamp8NoUpper(v) ==
    IF v < 0 THEN 0
    ELSE v

clamp8(v) ==
    IF v < 0 THEN 0
    ELSE IF v > 255 THEN 255
    ELSE v

hexNibble(c) ==
    IF c \in DOMAIN DigitOf THEN DigitOf[c]
    ELSE IF c \in DOMAIN UpperHexOf THEN 10 + UpperHexOf[c]
    ELSE IF c \in DOMAIN LowerHexOf THEN 10 + LowerHexOf[c]
    ELSE -1

\* parseHexByte with the two nibbles exchanged
parseHexByteSwapped(s, offset) ==
    IF offset < 0 \/ offset + 1 >= Len(s) THEN [ok |-> FALSE, out |-> 0]
    ELSE LET hi == hexNibble(s[offset + 1])
             lo == hexNibble(s[offset + 2])
         IN  IF hi < 0 \/ lo < 0 THEN [ok |-> FALSE, out |-> 0]
             ELSE [ok |-> TRUE, out |-> (lo * 16) + hi]

\* offset counts from 0, as in the source
parseHexByte(s, offset) ==
    IF offset < 0 \/ offset + 1 >= Len(s) THEN [ok |-> FALSE, out |-> 0]
    ELSE LET hi == hexNibble(s[offset + 1])
             lo == hexNibble(s[offset + 2])
         IN  IF hi < 0 \/ lo < 0 THEN [ok |-> FALSE, out |-> 0]
             ELSE [ok |-> TRUE, out |-> (hi * 16) + lo]

(***************************************************************************)
(* The strip: FastLED calls.                                                *)
(***************************************************************************)
Black == <<0, 0, 0>>

CRGB(r, g, b) == <<r, g, b>>

\* FastLED.show(): push the buffer out at the current brightness
Show(st) == [st EXCEPT !.shown = [px |-> st.leds, scale |-> st.bright]]

\* fill_solid(leds, NUM_LEDS, c)
FillSolid(st, c) == [st EXCEPT !.leds = [i \in Leds |-> c]]

\* FastLED.clear(true): black buffer, written out
ClearShow(st) == Show(FillSolid(st, Black))

\* FastLED.setBrightness(b)
SetBrightness(st, b) == [st EXCEPT !.bright = b]

(***************************************************************************)
(* applyHexFrame: the length test, then LED by LED; each LED is stored as   *)
(* soon as its three bytes have parsed, and the first byte that does not    *)
(* parse ends the call without show().                                      *)
(***************************************************************************)
FrameByte(hex, i, k) == parseHexByte(hex, (i * 6) + (2 * k))

FrameLedOk(hex, i) == \A k \in 0 .. 2 : FrameByte(hex, i, k).ok

\* the first LED whose bytes do not parse, NUM_LEDS if all do
FrameStop(hex) ==
    IF \A i \in Leds : FrameLedOk(hex, i) THEN NUM_LEDS
    ELSE SetMin({i \in Leds : ~FrameLedOk(hex, i)})

\* applyHexFrame without the FastLED.show() of line 86
applyHexFrameNoShow(hex, st) ==
    IF Len(hex) # NUM_LEDS * 6 THEN [ok |-> FALSE, st |-> st]
    ELSE LET stop == FrameStop(hex)
             written == [st EXCEPT !.leds =
                            [i \in Leds |->
                                IF i < stop
                                THEN CRGB(FrameByte(hex, i, 0).out,
                                          FrameByte(hex, i, 1).out,
                                          FrameByte(hex, i, 2).out)
                                ELSE st.leds[i]]]
         IN  [ok |-> stop = NUM_LEDS, st |-> written]

applyHexFrame(hex, st) ==
    IF Len(hex) # NUM_LEDS * 6 THEN [ok |-> FALSE, st |-> st]
    ELSE LET stop == FrameStop(hex)
             written == [st EXCEPT !.leds =
                            [i \in Leds |->
                                IF i < stop
                                THEN CRGB(FrameByte(hex, i, 0).out,
                                          FrameByte(hex, i, 1).out,
                                          FrameByte(hex, i, 2).out)
                                ELSE st.leds[i]]]
         IN  IF stop = NUM_LEDS THEN [ok |-> TRUE, st |-> Show(written)]
             ELSE [ok |-> FALSE, st |-> written]

(***************************************************************************)
(* runCommand(raw): the reply text and the strip after the command.         *)
(***************************************************************************)
Reply(text, st) == [resp |-> text, st |-> st]

\* cmdBright without clamp8
cmdBrightNoClamp(cmd, st) ==
    LET a == Sscanf(cmd, kBRIGHT, 1)
    IN  IF Len(a) = 1
        THEN Reply(kOK, Show(SetBrightness(st, a[1])))
        ELSE Reply(rUsageBright, st)

cmdBright(cmd, st) ==
    LET a == Sscanf(cmd, kBRIGHT, 1)
    IN  IF Len(a) = 1
        THEN Reply(kOK, Show(SetBrightness(st, clamp8(a[1]))))
        ELSE Reply(rUsageBright, st)

cmdFill(cmd, st) ==
    LET a == Sscanf(cmd, kFILL, 3)
    IN  IF Len(a) = 3
        THEN Reply(kOK, Show(FillSolid(st, CRGB(clamp8(a[1]), clamp8(a[2]), clamp8(a[3])))))
        ELSE Reply(rUsageFill, st)

\* leds[i] = CRGB(clamp8(r), clamp8(g), clamp8(b)); an index outside the
\* array would store outside it, which shows as a new element of the domain
WritePixel(st, i, r, g, b) ==
    [st EXCEPT !.leds =
        [j \in (DOMAIN st.leds) \cup {i} |->
            IF j = i THEN CRGB(clamp8(r), clamp8(g), clamp8(b)) ELSE st.leds[j]]]

\* the range test with the upper bound off by one
IndexInRangeOffByOne(i) == ~(i < 0 \/ i > NUM_LEDS)

IndexInRange(i) == ~(i < 0 \/ i >= NUM_LEDS)

\* cmdSet without the FastLED.show() of line 131
cmdSetNoShow(cmd, st) ==
    LET a == Sscanf(cmd, kSET, 4)
    IN  IF Len(a) = 4
        THEN IF ~IndexInRange(a[1]) THEN Reply(rIndexRange, st)
             ELSE Reply(kOK, WritePixel(st, a[1], a[2], a[3], a[4]))
        ELSE Reply(rUsageSet, st)

cmdSet(cmd, st) ==
    LET a == Sscanf(cmd, kSET, 4)
    IN  IF Len(a) = 4
        THEN IF ~IndexInRange(a[1]) THEN Reply(rIndexRange, st)
             ELSE Reply(kOK, Show(WritePixel(st, a[1], a[2], a[3], a[4])))
        ELSE Reply(rUsageSet, st)

\* cmdSetn with a FastLED.show() after the write, as in SET
cmdSetnShow(cmd, st) ==
    LET a == Sscanf(cmd, kSETN, 4)
    IN  IF Len(a) = 4
        THEN IF ~IndexInRange(a[1]) THEN Reply(rIndexRange, st)
             ELSE Reply(kOK, Show(WritePixel(st, a[1], a[2], a[3], a[4])))
        ELSE Reply(rUsageSetn, st)

cmdSetn(cmd, st) ==
    LET a == Sscanf(cmd, kSETN, 4)
    IN  IF Len(a) = 4
        THEN IF ~IndexInRange(a[1]) THEN Reply(rIndexRange, st)
             ELSE Reply(kOK, WritePixel(st, a[1], a[2], a[3], a[4]))
        ELSE Reply(rUsageSetn, st)

cmdFrame(cmd, st) ==
    LET payload == Trim(Substring(cmd, 6))
        f == applyHexFrame(payload, st)
    IN  IF f.ok THEN Reply(kOK, f.st) ELSE Reply(rUsageFrame, f.st)

runCommand(raw, st) ==
    LET cmd == ToUpperCase(Trim(raw))
    IN  IF cmd = kPING THEN Reply(kOK, st)
        ELSE IF cmd = kINFO
             THEN Reply(rInfoLeds \o IntToStr(NUM_LEDS) \o rInfoBright \o IntToStr(st.bright), st)
        ELSE IF StartsWith(cmd, kBRIGHT) THEN cmdBright(cmd, st)
        ELSE IF StartsWith(cmd, kFILL) THEN cmdFill(cmd, st)
        ELSE IF StartsWith(cmd, kSET) THEN cmdSet(cmd, st)
        ELSE IF StartsWith(cmd, kSETN) THEN cmdSetn(cmd, st)
        ELSE IF cmd = kSHOW THEN Reply(kOK, Show(st))
        ELSE IF cmd = kCLEAR THEN Reply(kOK, ClearShow(st))
        ELSE IF StartsWith(cmd, kFRAME) THEN cmdFrame(cmd, st)
        ELSE Reply(rUnknown, st)

(***************************************************************************)
(* Serial side: replyErr and readLine.                                      *)
(***************************************************************************)
\* Serial.print("ERR "); Serial.println(msg)
replyErr(msg) == kERR \o Println(msg)

\* The loop of readLine over the bytes avail from position p on.  out is
\* the line buffer, errs the number of "line too long" replies so far.  A
\* buffer that grows past MAX_COMMAND_CHARS is emptied and reading goes on
\* with the next byte.
\* readLineFrom that empties the buffer one character early
RECURSIVE readLineFromEarly(_, _, _, _)
readLineFromEarly(out, avail, p, errs) ==
    IF p > Len(avail)
    THEN [complete |-> FALSE, out |-> out, next |-> p, errs |-> errs]
    ELSE IF avail[p] = "\r" THEN readLineFromEarly(out, avail, p + 1, errs)
    ELSE IF avail[p] = "\n"
         THEN [complete |-> TRUE, out |-> Trim(out), next |-> p + 1, errs |-> errs]
    ELSE IF Len(out) + 1 >= MAX_COMMAND_CHARS
         THEN readLineFromEarly(<<>>, avail, p + 1, errs + 1)
    ELSE readLineFromEarly(Append(out, avail[p]), avail, p + 1, errs)

RECURSIVE readLineFrom(_, _, _, _)
readLineFrom(out, avail, p, errs) ==
    IF p > Len(avail)
    THEN [complete |-> FALSE, out |-> out, next |-> p, errs |-> errs]
    ELSE IF avail[p] = "\r" THEN readLineFrom(out, avail, p + 1, errs)
    ELSE IF avail[p] = "\n"
         THEN [complete |-> TRUE, out |-> Trim(out), next |-> p + 1, errs |-> errs]
    ELSE IF Len(out) + 1 > MAX_COMMAND_CHARS
         THEN readLineFrom(<<>>, avail, p + 1, errs + 1)
    ELSE readLineFrom(Append(out, avail[p]), avail, p + 1, errs)

\* readLine(out): the buffer after the call, whether a newline ended it, the
\* bytes left in Serial and what was printed
readLine(out, avail) ==
    LET r == readLineFrom(out, avail, 1, 0)
    IN  [complete |-> r.complete, out |-> r.out,
         rest |-> SubSeq(avail, r.next, Len(avail)),
         printed |-> Repeat(replyErr(mLineTooLong), r.errs)]

\* printResponse that cuts the reply after "ERR" instead of after "ERR "
printResponseCut3(response) ==
    IF StartsWith(response, kOK) THEN Println(response)
    ELSE IF StartsWith(response, kERR) THEN replyErr(Substring(response, 3))
    ELSE Println(response)

\* loop(), lines 314-321: what is printed for the reply of runCommand
printResponse(response) ==
    IF StartsWith(response, kOK) THEN Println(response)
    ELSE IF StartsWith(response, kERR) THEN replyErr(Substring(response, 4))
    ELSE Println(response)

\* loop(), lines 313-323, on the line buffer ln and the bytes avail; ran is
\* the argument of runCommand (if it was called), cut says that readLine
\* emptied an overlong buffer
serialReply(rd, r) ==
    [line |-> <<>>, rest |-> rd.rest, st |-> r.st,
     printed |-> rd.printed \o printResponse(r.resp),
     ran |-> <<rd.out>>, resp |-> r.resp, cut |-> rd.printed # <<>>]

serialDispatch(rd, st) ==
    IF rd.complete
    THEN serialReply(rd, runCommand(rd.out, st))
    ELSE [line |-> rd.out, rest |-> rd.rest, st |-> st,
          printed |-> rd.printed,
          ran |-> <<>>, resp |-> <<>>, cut |-> rd.printed # <<>>]

serialStep(ln, avail, st) == serialDispatch(readLine(ln, avail), st)

(***************************************************************************)
(* HTTP side: the three routes registered in setup().  A request is         *)
(* [route, has, arg]: has says whether the argument (q, or the body         *)
(* "plain") is present.                                                     *)
(***************************************************************************)
NoReq == [route |-> "none", has |-> FALSE, arg |-> <<>>]

NoResp == [req |-> NoReq, code |-> 0, body |-> <<>>]

Send(req, code, body, st) ==
    [resp |-> [req |-> req, code |-> code, body |-> body], st |-> st]

\* server.on("/", HTTP_GET, ...)
handleRoot(req, ssid, status, st) ==
    Send(req, 200,
         tRootHead \o ssid \o tRootIp
            \o (IF status = "WL_CONNECTED" THEN IpText ELSE tRootDisc)
            \o tRootUse,
         st)

\* server.on("/cmd", HTTP_GET, ...); server.arg("q") is empty when q is absent
sendReply(req, r) ==
    Send(req, IF StartsWith(r.resp, kOK) THEN 200 ELSE 400, r.resp, r.st)

handleCmd(req, st) ==
    LET q == IF req.has THEN req.arg ELSE <<>>
    IN  IF Len(q) = 0 THEN Send(req, 400, rMissingQ, st)
        ELSE sendReply(req, runCommand(q, st))

\* server.on("/frame", HTTP_POST, ...)
handleFrame(req, st) ==
    LET f == applyHexFrame(Trim(req.arg), st)
    IN  IF ~req.has THEN Send(req, 400, rMissingBody, st)
        ELSE IF f.ok THEN Send(req, 200, kOK, f.st)
        ELSE Send(req, 400, rInvalidFrame, f.st)

\* server.handleClient() with the request req pending (NoReq: nothing to do)
handleClient(req, ssid, status, st) ==
    IF req.route = "root" THEN handleRoot(req, ssid, status, st)
    ELSE IF req.route = "cmd" THEN handleCmd(req, st)
    ELSE IF req.route = "frame" THEN handleFrame(req, st)
    ELSE [resp |-> NoResp, st |-> st]

(***************************************************************************)
(* Wi-Fi supervision.                                                       *)
(***************************************************************************)
\* unsigned subtraction a - b of millis() values
Elapsed(a, b) == (a - b + TimeMod) % TimeMod

\* maintainWifiConnection without the test for an empty SSID
maintainWithoutSsidTest(ssid, status, t, lastRetry) ==
    IF status = "WL_CONNECTED"
    THEN [status |-> status, lastRetry |-> lastRetry, printed |-> <<>>, retried |-> FALSE]
    ELSE IF Elapsed(t, lastRetry) < WIFI_RETRY_INTERVAL_MS
    THEN [status |-> status, lastRetry |-> lastRetry, printed |-> <<>>, retried |-> FALSE]
    ELSE [status |-> "WL_DISCONNECTED", lastRetry |-> t,
          printed |-> Println(mRetrying), retried |-> TRUE]

\* maintainWifiConnection(): the retry is WiFi.disconnect(); WiFi.begin(...)
maintainWifiConnection(ssid, status, t, lastRetry) ==
    IF Len(ssid) = 0
    THEN [status |-> status, lastRetry |-> lastRetry, printed |-> <<>>, retried |-> FALSE]
    ELSE IF status = "WL_CONNECTED"
    THEN [status |-> status, lastRetry |-> lastRetry, printed |-> <<>>, retried |-> FALSE]
    ELSE IF Elapsed(t, lastRetry) < WIFI_RETRY_INTERVAL_MS
    THEN [status |-> status, lastRetry |-> lastRetry, printed |-> <<>>, retried |-> FALSE]
    ELSE [status |-> "WL_DISCONNECTED", lastRetry |-> t,
          printed |-> Println(mRetrying), retried |-> TRUE]

StatusText(status) ==
    IF status = "WL_CONNECTED" THEN <<"3">>
    ELSE IF status = "WL_DISCONNECTED" THEN <<"6">>
    ELSE <<"2", "5", "5">>

(***************************************************************************)
(* What the host sends.  Command lines are built from the keywords and      *)
(* decimal arguments; frame payloads give every LED one six-digit group.    *)
(***************************************************************************)
Num(n) == IF n < 0 THEN <<"-">> \o IntToStr(0 - n) ELSE IntToStr(n)

RECURSIVE Args(_)
Args(a) ==
    IF Len(a) = 0 THEN <<>>
    ELSE IF Len(a) = 1 THEN Num(a[1])
    ELSE Num(a[1]) \o <<" ">> \o Args(Tail(a))

\* the groups g[0], ..., g[NUM_LEDS-1], with sep between them
RECURSIVE Groups(_, _, _)
Groups(g, sep, i) ==
    IF i >= NUM_LEDS THEN <<>>
    ELSE IF i = NUM_LEDS - 1 THEN g[i]
    ELSE g[i] \o sep \o Groups(g, sep, i + 1)

ColorA == <<255, 0, 10>>

ColorB == <<1, 2, 3>>

gA == <<"f","f","0","0","0","a">>

gAUpper == <<"F","F","0","0","0","A">>

gB == <<"0","1","0","2","0","3">>

gBad == <<"0","1","0","2","z","z">>

pAllA == Groups([i \in Leds |-> gA], <<>>, 0)

pMixed == Groups([i \in Leds |-> IF i = 0 THEN gB ELSE gAUpper], <<>>, 0)

pBadLast == Groups([i \in Leds |-> IF i = NUM_LEDS - 1 THEN gBad ELSE gB], <<>>, 0)

pBadFirst == Groups([i \in Leds |-> IF i = 0 THEN gBad ELSE gA], <<>>, 0)

\* red, green, blue, red, ...: one group per LED
gRgb == <<<<"F","F","0","0","0","0">>, <<"0","0","F","F","0","0">>, <<"0","0","0","0","F","F">>>>

RgbCycle == <<<<255, 0, 0>>, <<0, 255, 0>>, <<0, 0, 255>>>>

pRgb == Groups([i \in Leds |-> gRgb[(i % 3) + 1]], <<>>, 0)

pRgbSpaced == Groups([i \in Leds |-> gRgb[(i % 3) + 1]], <<" ">>, 0)

\* the hex encoding of colours: two digits per channel, r g b, LED 0 first
UpperHexDigits == DigitChars \o SubSeq(UpperChars, 1, 6)

LowerHexDigits == DigitChars \o SubSeq(LowerChars, 1, 6)

HexByteText(v, digits) == <<digits[(v \div 16) + 1], digits[(v % 16) + 1]>>

HexGroup(c, digits) ==
    HexByteText(c[1], digits) \o HexByteText(c[2], digits) \o HexByteText(c[3], digits)

EncodeFrame(colors, digits) == Groups([i \in Leds |-> HexGroup(colors[i], digits)], <<>>, 0)

\* colours whose encodings use every hex digit
Palette == {<<0, 0, 0>>, <<18, 52, 86>>, <<120, 154, 188>>, <<222, 255, 10>>}

PaletteFrames == [Leds -> Palette]

SampleFrame == [i \in Leds |-> IF i = 0 THEN <<222, 255, 10>> ELSE <<120, 154, 188>>]

pShort == <<"F","F","0","0">>

pLong == pAllA \o <<"0">>

pSpaced == Groups([i \in Leds |-> IF i = 0 THEN gB ELSE gAUpper], <<" ">>, 0)

FramePayloads ==
    {pAllA, pMixed, pBadLast, pBadFirst, pShort, pLong, pSpaced, pRgb, pRgbSpaced, <<>>}

FrameLines == {kFRAME \o p : p \in FramePayloads}

PlainLines ==
    { kPING, <<"i","n","f","o">>, kSHOW, kCLEAR, <<"H","E","L","L","O">>,
      <<>>, <<" ", " ">>, <<"P","I","\r","N","G">> }

ArgLines ==
    { kBRIGHT \o Args(<<300>>),
      kBRIGHT \o Args(<<300, 9>>),
      kBRIGHT \o <<"a","b","c">>,
      kFILL \o Args(<<300, -5, 10>>),
      kFILL \o Args(<<1, 2>>),
      kFILL \o Args(<<1, 2, 3, 4>>),
      kSET \o Args(<<0, 1, 2, 3>>),
      kSET \o Args(<<NUM_LEDS, 1, 2, 3>>),
      kSET \o Args(<<-1, 1, 2, 3>>),
      kSET \o Args(<<1>>) \o <<" ","x"," ">> \o Args(<<2, 3>>),
      kSET \o Args(<<0, 1, 2, 3, 4>>),
      kSETN \o Args(<<0, 1, 2, 3>>),
      kSETN \o Args(<<NUM_LEDS - 1, 300, -5, 10>>),
      kSETN \o Args(<<NUM_LEDS, 1, 2, 3>>),
      kSETN \o Args(<<1, 2>>) }

\* a line longer than the cap whose last five characters spell a command
LongHead == Repeat(<<"X">>, MAX_COMMAND_CHARS + 1)

LongLine == LongHead \o kCLEAR

CommandTexts == PlainLines \cup ArgLines \cup FrameLines \cup {LongLine}

Nl == <<"\n">>

\* a command line that arrives in two pieces
LineHead == <<"f","i","l","l"," ","1"," ","2"," ">>

LineRest == <<"3","\r","\n">>

\* the lines the host sends in the serial workload
SentLines ==
    { kPING, <<"i","n","f","o">>, kSHOW, kCLEAR, <<"H","E","L","L","O">>, <<>>,
      kBRIGHT \o Args(<<300>>),
      kBRIGHT \o Args(<<300, 9>>),
      kFILL \o Args(<<300, -5, 10>>),
      kFILL \o Args(<<1, 2, 3, 4>>),
      kSET \o Args(<<0, 1, 2, 3>>),
      kSET \o Args(<<NUM_LEDS, 1, 2, 3>>),
      kSETN \o Args(<<0, 1, 2, 3>>),
      kSETN \o Args(<<NUM_LEDS - 1, 300, -5, 10>>),
      kFRAME \o pAllA, kFRAME \o pMixed, kFRAME \o pBadLast, kFRAME \o pShort }

\* byte chunks on the serial line: whole lines, a line in two pieces, the
\* start of an overlong line, two lines at once
SerialWorkloadChunks ==
    {c \o Nl : c \in SentLines}
        \cup {LineHead, LineRest, LongHead,
              kSETN \o Args(<<0, 1, 2, 3>>) \o Nl \o kSHOW \o Nl}

HttpWorkloadChunks ==
    {kSHOW \o Nl, kSETN \o Args(<<NUM_LEDS - 1, 300, -5, 10>>) \o Nl, kCLEAR \o Nl}

\* two lines at once: the second waits in Serial for the next turn of loop()
PairChunk == kPING \o Nl \o kSHOW \o Nl

ConnectivityChunks == {kPING \o Nl, kFILL \o Args(<<300, -5, 10>>) \o Nl, PairChunk}

\* whole frames, with and without spaces between the groups
FrameWorkloadChunks ==
    { kFRAME \o pRgb \o Nl, kFRAME \o pRgbSpaced \o Nl,
      kFRAME \o EncodeFrame(SampleFrame, LowerHexDigits) \o Nl }

\* brightness commands, good and bad, and commands that leave it alone
BrightnessChunks ==
    { kBRIGHT \o Args(<<-5>>) \o Nl, kBRIGHT \o Args(<<300>>) \o Nl,
      kBRIGHT \o <<"a","b","c">> \o Nl, kINFO \o Nl, kCLEAR \o Nl }

SerialChunks(w) ==
    IF w = "serial" THEN SerialWorkloadChunks
    ELSE IF w = "http" THEN HttpWorkloadChunks
    ELSE IF w = "frames" THEN FrameWorkloadChunks
    ELSE IF w = "brightness" THEN BrightnessChunks
    ELSE ConnectivityChunks

CmdReq(q) == [route |-> "cmd", has |-> TRUE, arg |-> q]

FrameReq(p) == [route |-> "frame", has |-> TRUE, arg |-> p]

RootReq == [route |-> "root", has |-> FALSE, arg |-> <<>>]

HttpWorkloadRequests ==
    { RootReq,
      [route |-> "cmd", has |-> FALSE, arg |-> <<>>],
      [route |-> "frame", has |-> FALSE, arg |-> <<>>],
      CmdReq(kPING),
      CmdReq(kSETN \o Args(<<0, 1, 2, 3>>)),
      CmdReq(kFILL \o Args(<<300, -5, 10>>)),
      CmdReq(kFRAME \o pBadLast),
      FrameReq(pAllA), FrameReq(pBadLast), FrameReq(pShort) }

ConnectivityRequests == {RootReq, CmdReq(kPING)}

BrightnessRequests == {CmdReq(kBRIGHT \o Args(<<10>>)), CmdReq(kINFO)}

HttpRequests(w) ==
    IF w \in {"serial", "frames"} THEN {}
    ELSE IF w = "http" THEN HttpWorkloadRequests
    ELSE IF w = "brightness" THEN BrightnessRequests
    ELSE ConnectivityRequests

\* the chunks that end in the middle of a line
IsHead(chunk) == chunk # <<>> /\ chunk[Len(chunk)] # "\n"

\* the runs explored: the SSID configured or not, and what the host does
Runs ==
    { <<<<>>, "serial">>, <<<<>>, "connectivity">>, <<<<>>, "frames">>,
      <<SsidText, "http">>, <<SsidText, "connectivity">>, <<SsidText, "brightness">> }

(***************************************************************************)
(* State.                                                                   *)
(***************************************************************************)
VARIABLES
    pc,                 \* position in setup(), or "loop"
    WIFI_STA_SSID,      \* compile-time SSID, empty when no secrets are given
    workload,           \* what the host does in this run
    leds,               \* CRGB leds[NUM_LEDS]
    brightness,         \* FastLED brightness
    shown,              \* what FastLED.show() pushed out last
    line,               \* String line
    rx,                 \* bytes waiting in Serial
    serialOut,          \* bytes written to Serial by the last step
    httpResp,           \* response sent by the last step
    httpServerStarted,
    lastWifiRetryMs,
    startedAt,          \* connectWifiStation: startedAt
    wifiConnected,      \* setup: wifiConnected
    wifiStatus,         \* WiFi.status()
    now,                \* millis()
    ranSerial,          \* history: the kind of command the last loop() ran from Serial
    lineCut,            \* history: the line being read has lost characters
    ranTail,            \* history: runCommand got the rest of such a line
    gate,               \* history: loop()'s last gating check
    warned,             \* history: number of missing-credentials warnings
    setnSinceShow,      \* history: displayed pixel before a SETN, until SHOW
    setnSinceFlush,     \* history: displayed pixel before a SETN, until a flush
    sinceAttempt,       \* history: clock ticks since the last WiFi.begin()
    retry,              \* history: the retry of loop()'s last turn, if it made one
    stalled,            \* history: a turn of loop() left a complete line waiting
    begins,             \* history: number of calls of server.begin()
    lastBright          \* history: the clamped argument of the last successful BRIGHT

stripVars == <<leds, brightness, shown>>

serialVars == <<line, rx, serialOut>>

httpVars == <<httpResp, httpServerStarted>>

wifiVars == <<lastWifiRetryMs, startedAt, wifiConnected, wifiStatus>>

histVars == <<ranSerial, lineCut, ranTail, gate, warned, setnSinceShow, setnSinceFlush>>

attemptVars == <<sinceAttempt, retry>>

tallyVars == <<stalled, begins, lastBright>>

vars == <<pc, WIFI_STA_SSID, workload, stripVars, serialVars, httpVars,
          wifiVars, now, histVars, attemptVars, tallyVars>>

Strip == [leds |-> leds, bright |-> brightness, shown |-> shown]

SetStrip(st) ==
    /\ leds' = st.leds
    /\ brightness' = st.bright
    /\ shown' = st.shown

NoGate == [handled |-> FALSE, link |-> "WL_NO_SHIELD"]

NoSetn == [i \in Leds |-> <<>>]

NoRetry == [made |-> FALSE, age |-> 0, link |-> "WL_NO_SHIELD"]

\* one more call; two calls and more are not told apart
Counted(n) == IF n >= 2 THEN 2 ELSE n + 1

\* the time since the last association attempt after d more ticks; times of
\* WIFI_RETRY_INTERVAL_MS and more are not told apart
Older(age, d) ==
    IF age + d > WIFI_RETRY_INTERVAL_MS THEN WIFI_RETRY_INTERVAL_MS ELSE age + d

\* globals as constructed, before setup() runs; FastLED starts at brightness 255
Init ==
    /\ pc = "setup"
    /\ \E run \in Runs : WIFI_STA_SSID = run[1] /\ workload = run[2]
    /\ leds = [i \in Leds |-> Black]
    /\ brightness = 255
    /\ shown = [px |-> [i \in Leds |-> Black], scale |-> 255]
    /\ line = <<>>
    /\ rx = <<>>
    /\ serialOut = <<>>
    /\ httpResp = NoResp
    /\ httpServerStarted = FALSE
    /\ lastWifiRetryMs = 0
    /\ startedAt = 0
    /\ wifiConnected = FALSE
    /\ wifiStatus = "WL_NO_SHIELD"
    /\ now = 0
    /\ ranSerial = "none"
    /\ lineCut = FALSE
    /\ ranTail = FALSE
    /\ gate = NoGate
    /\ warned = 0
    /\ setnSinceShow = NoSetn
    /\ setnSinceFlush = NoSetn
    /\ sinceAttempt = 0
    /\ retry = NoRetry
    /\ stalled = FALSE
    /\ begins = 0
    /\ lastBright = DEFAULT_BRIGHTNESS

(***************************************************************************)
(* History.  The kind of a command is the branch of runCommand it takes.    *)
(* For SETN writes: the pixel's displayed colour when a successful SETN     *)
(* wrote it, kept until SHOW (setnSinceShow) or until any command that      *)
(* flushes (setnSinceFlush).                                                *)
(***************************************************************************)
CommandKind(raw) ==
    LET cmd == ToUpperCase(Trim(raw))
    IN  IF cmd = kPING THEN "PING"
        ELSE IF cmd = kINFO THEN "INFO"
        ELSE IF StartsWith(cmd, kBRIGHT) THEN "BRIGHT"
        ELSE IF StartsWith(cmd, kFILL) THEN "FILL"
        ELSE IF StartsWith(cmd, kSET) THEN "SET"
        ELSE IF StartsWith(cmd, kSETN) THEN "SETN"
        ELSE IF cmd = kSHOW THEN "SHOW"
        ELSE IF cmd = kCLEAR THEN "CLEAR"
        ELSE IF StartsWith(cmd, kFRAME) THEN "FRAME"
        ELSE "OTHER"

\* the kind of command a handled request stands for
ReqKind(req) ==
    IF req.route = "cmd" /\ req.has /\ Len(req.arg) > 0 THEN CommandKind(req.arg)
    ELSE IF req.route = "frame" /\ req.has THEN "FRAME"
    ELSE "none"

\* the first argument of a command line
FirstArg(raw) == ScanInts(ToUpperCase(Trim(raw)), 5, 1)[1]

FlushKinds == {"BRIGHT", "FILL", "SET", "SHOW", "CLEAR", "FRAME"}

NoteSetn(h, i, before) ==
    IF i \in Leds /\ h[i] = <<>> THEN [h EXCEPT ![i] = before.shown.px[i]] ELSE h

SinceShowAfter(h, kind, raw, ok, before) ==
    IF kind = "SETN" /\ ok THEN NoteSetn(h, FirstArg(raw), before)
    ELSE IF kind = "SHOW" THEN NoSetn
    ELSE h

\* the value in [0,255] nearest to v
Clamped(v) == IF v \in 0 .. 255 THEN v ELSE IF v < 0 THEN 0 ELSE 255

\* the brightness a command of this kind asks for, if it succeeded
BrightAfter(b, kind, raw, ok) ==
    IF kind = "BRIGHT" /\ ok
    THEN Clamped(Sscanf(ToUpperCase(Trim(raw)), kBRIGHT, 1)[1])
    ELSE b

\* a complete line waits in Serial
HasLine(bytes) == \E i \in 1 .. Len(bytes) : bytes[i] = "\n"

SinceFlushAfter(h, kind, raw, ok, before) ==
    IF kind = "SETN" /\ ok THEN NoteSetn(h, FirstArg(raw), before)
    ELSE IF kind \in FlushKinds /\ ok THEN NoSetn
    ELSE h

(***************************************************************************)
(* setup()                                                                  *)
(***************************************************************************)
\* delay(2000) and delay(250) in clock ticks
BootDelay == 1

ConnectPoll == 1

\* lines 236-242
SetupStrip ==
    /\ pc = "setup"
    /\ pc' = "connect"
    /\ now' = (now + BootDelay) % TimeMod
    /\ SetStrip(ClearShow(SetBrightness(Strip, DEFAULT_BRIGHTNESS)))
    /\ serialOut' = <<>>
    /\ UNCHANGED <<WIFI_STA_SSID, workload, line, rx, httpVars, wifiVars, histVars,
                   attemptVars, tallyVars>>

\* connectWifiStation(), lines 184-198
ConnectBegin ==
    /\ pc = "connect"
    /\ IF Len(WIFI_STA_SSID) = 0
       THEN /\ serialOut' = Println(mWarnCreds)
            /\ warned' = warned + 1
            /\ wifiConnected' = FALSE
            /\ pc' = "routes"
            /\ UNCHANGED <<wifiStatus, startedAt, sinceAttempt>>
       ELSE /\ wifiStatus' = "WL_DISCONNECTED"
            /\ serialOut' = mConnecting \o Println(WIFI_STA_SSID)
            /\ startedAt' = now
            /\ sinceAttempt' = 0
            /\ pc' = "wait"
            /\ UNCHANGED <<warned, wifiConnected>>
    /\ UNCHANGED <<WIFI_STA_SSID, workload, stripVars, line, rx, httpVars,
                   lastWifiRetryMs, now, ranSerial, lineCut, ranTail, gate,
                   setnSinceShow, setnSinceFlush, retry, tallyVars>>

\* the condition of the wait loop without its timeout
StillWaitingNoTimeout == wifiStatus # "WL_CONNECTED"

\* the condition of the wait loop, line 199
StillWaiting ==
    wifiStatus # "WL_CONNECTED" /\ Elapsed(now, startedAt) < WIFI_CONNECT_TIMEOUT_MS

\* one turn of the wait loop, lines 199-202
ConnectWait ==
    /\ pc = "wait"
    /\ StillWaiting
    /\ now' = (now + ConnectPoll) % TimeMod
    /\ serialOut' = <<".">>
    /\ sinceAttempt' = Older(sinceAttempt, ConnectPoll)
    /\ UNCHANGED <<pc, WIFI_STA_SSID, workload, stripVars, line, rx, httpVars,
                   wifiVars, histVars, retry, tallyVars>>

\* leaving the wait loop, lines 203-213
ConnectResult ==
    /\ pc = "wait"
    /\ ~StillWaiting
    /\ wifiConnected' = (wifiStatus = "WL_CONNECTED")
    /\ serialOut' = Println(<<>>)
                      \o (IF wifiStatus # "WL_CONNECTED"
                          THEN mConnectFailed \o Println(StatusText(wifiStatus))
                          ELSE mConnected \o Println(IpText))
    /\ pc' = "routes"
    /\ UNCHANGED <<WIFI_STA_SSID, workload, stripVars, line, rx, httpVars,
                   lastWifiRetryMs, startedAt, wifiStatus, now, histVars,
                   attemptVars, tallyVars>>

\* lines 246-298: the routes, then server.begin() if connected, then READY
SetupServer ==
    /\ pc = "routes"
    /\ httpServerStarted' = (httpServerStarted \/ wifiConnected)
    /\ serialOut' = Println(mReady)
                      \o (IF wifiConnected
                          THEN mSsidLabel \o Println(WIFI_STA_SSID)
                                 \o mIpLabel \o Println(IpText)
                          ELSE Println(mHttpDisabled))
    /\ begins' = IF wifiConnected THEN Counted(begins) ELSE begins
    /\ pc' = "loop"
    /\ UNCHANGED <<WIFI_STA_SSID, workload, stripVars, line, rx, httpResp,
                   wifiVars, now, histVars, attemptVars, stalled, lastBright>>

(***************************************************************************)
(* loop(): maintainWifiConnection, the server start, handleClient if the    *)
(* server has been started, then one readLine and the command it completes. *)
(* req is the request that has reached the server (NoReq: none), arrived    *)
(* the bytes that reached Serial since the last turn.  The result holds the  *)
(* value of every variable the turn assigns.                                 *)
(***************************************************************************)
\* the values the turn assigns, from the results of its statements: m of
\* maintainWifiConnection, h of handleClient, s of the serial dispatch;
\* hKind and sKind name the commands the two transports ran, sRaw is the
\* serial line that was run
loopNoted(m, startNow, h, s, hKind, sKind, sRaw) ==
    [ wifiStatus |-> m.status,
      lastWifiRetryMs |-> m.lastRetry,
      httpServerStarted |-> httpServerStarted \/ startNow,
      httpResp |-> h.resp,
      st |-> s.st,
      line |-> s.line,
      rx |-> s.rest,
      serialOut |-> m.printed
                      \o (IF startNow THEN mHttpStarted \o Println(IpText) ELSE <<>>)
                      \o s.printed,
      gate |-> [handled |-> httpServerStarted \/ startNow, link |-> m.status],
      ranSerial |-> sKind,
      lineCut |-> IF s.ran # <<>> THEN FALSE ELSE lineCut \/ s.cut,
      ranTail |-> (s.ran # <<>> /\ (lineCut \/ s.cut) /\ sRaw # <<>>),
      setnSinceShow |->
          SinceShowAfter(
              SinceShowAfter(setnSinceShow, hKind, h.resp.req.arg, h.resp.code = 200, Strip),
              sKind, sRaw, StartsWith(s.resp, kOK), h.st),
      setnSinceFlush |->
          SinceFlushAfter(
              SinceFlushAfter(setnSinceFlush, hKind, h.resp.req.arg, h.resp.code = 200, Strip),
              sKind, sRaw, StartsWith(s.resp, kOK), h.st),
      sinceAttempt |-> IF m.retried THEN 0 ELSE sinceAttempt,
      retry |-> IF m.retried
                THEN [made |-> TRUE, age |-> sinceAttempt, link |-> wifiStatus]
                ELSE NoRetry,
      stalled |-> stalled \/ (HasLine(rx) /\ s.ran = <<>>),
      begins |-> IF startNow THEN Counted(begins) ELSE begins,
      lastBright |->
          BrightAfter(BrightAfter(lastBright, hKind, h.resp.req.arg, h.resp.code = 200),
                      sKind, sRaw, StartsWith(s.resp, kOK)) ]

loopResult(m, startNow, h, s) ==
    loopNoted(m, startNow, h, s, ReqKind(h.resp.req),
              IF s.ran = <<>> THEN "none" ELSE CommandKind(s.ran[1]),
              IF s.ran = <<>> THEN <<>> ELSE s.ran[1])

\* loopSerial that skips the serial line while an association is awaited
loopSerialBlocked(arrived, m, startNow, h) ==
    IF Len(WIFI_STA_SSID) > 0 /\ m.status # "WL_CONNECTED"
    THEN loopResult(m, startNow, h,
                    [line |-> line, rest |-> rx \o arrived, st |-> h.st,
                     printed |-> <<>>, ran |-> <<>>, resp |-> <<>>, cut |-> FALSE])
    ELSE loopResult(m, startNow, h, serialStep(line, rx \o arrived, h.st))

\* lines 313-323
loopSerial(arrived, m, startNow, h) ==
    loopResult(m, startNow, h, serialStep(line, rx \o arrived, h.st))

\* loopServer without the server start of lines 303-308
loopServerNoLateStart(req, arrived, m) ==
    loopSerial(arrived, m, FALSE,
               IF httpServerStarted
               THEN handleClient(req, WIFI_STA_SSID, m.status, Strip)
               ELSE [resp |-> NoResp, st |-> Strip])

\* loopServer that starts the server whenever the link is connected,
\* without the test of httpServerStarted
loopServerRestart(req, arrived, m) ==
    loopSerial(arrived, m,
               m.status = "WL_CONNECTED",
               IF httpServerStarted \/ m.status = "WL_CONNECTED"
               THEN handleClient(req, WIFI_STA_SSID, m.status, Strip)
               ELSE [resp |-> NoResp, st |-> Strip])

\* lines 303-311
loopServer(req, arrived, m) ==
    loopSerial(arrived, m,
               ~httpServerStarted /\ m.status = "WL_CONNECTED",
               IF httpServerStarted \/ m.status = "WL_CONNECTED"
               THEN handleClient(req, WIFI_STA_SSID, m.status, Strip)
               ELSE [resp |-> NoResp, st |-> Strip])

\* line 302, and on
loopTurn(req, arrived) ==
    loopServer(req, arrived,
               maintainWifiConnection(WIFI_STA_SSID, wifiStatus, now, lastWifiRetryMs))

\* a chunk that may arrive in the same turn as a request
BusyChunk == kSHOW \o Nl

\* A request can have reached the server only over a connected link; the
\* host writes its next chunk once Serial has been drained, and breaks a
\* line only if it is at the start of one.
\* one turn of loop() with the request req at the server and the bytes
\* arrived new in Serial
LoopWith(req, arrived) ==
    /\ pc = "loop"
    /\ req # NoReq => (httpServerStarted /\ wifiStatus = "WL_CONNECTED")
    /\ arrived # <<>> => rx = <<>>
    /\ IsHead(arrived) => line = <<>>
    /\ (req # NoReq /\ arrived # <<>>) => arrived = BusyChunk
    /\ \E t \in {loopTurn(req, arrived)} :
          /\ wifiStatus' = t.wifiStatus
          /\ lastWifiRetryMs' = t.lastWifiRetryMs
          /\ httpServerStarted' = t.httpServerStarted
          /\ httpResp' = t.httpResp
          /\ SetStrip(t.st)
          /\ line' = t.line
          /\ rx' = t.rx
          /\ serialOut' = t.serialOut
          /\ gate' = t.gate
          /\ ranSerial' = t.ranSerial
          /\ lineCut' = t.lineCut
          /\ ranTail' = t.ranTail
          /\ setnSinceShow' = t.setnSinceShow
          /\ setnSinceFlush' = t.setnSinceFlush
          /\ sinceAttempt' = t.sinceAttempt
          /\ retry' = t.retry
          /\ stalled' = t.stalled
          /\ begins' = t.begins
          /\ lastBright' = t.lastBright
    /\ UNCHANGED <<pc, WIFI_STA_SSID, workload, startedAt, wifiConnected, now, warned>>

Loop ==
    \E req \in HttpRequests(workload) \cup {NoReq} :
    \E arrived \in SerialChunks(workload) \cup {<<>>} :
        LoopWith(req, arrived)

(***************************************************************************)
(* The world around the firmware.                                           *)
(***************************************************************************)
\* the station associates (WiFi.begin has been called)
LinkUp ==
    /\ wifiStatus = "WL_DISCONNECTED"
    /\ wifiStatus' = "WL_CONNECTED"
    /\ UNCHANGED <<pc, WIFI_STA_SSID, workload, stripVars, serialVars, httpVars,
                   lastWifiRetryMs, startedAt, wifiConnected, now, histVars,
                   attemptVars, tallyVars>>

\* the link is lost (in the runs that are about connectivity)
LinkDown ==
    /\ workload = "connectivity"
    /\ wifiStatus = "WL_CONNECTED"
    /\ wifiStatus' = "WL_DISCONNECTED"
    /\ UNCHANGED <<pc, WIFI_STA_SSID, workload, stripVars, serialVars, httpVars,
                   lastWifiRetryMs, startedAt, wifiConnected, now, histVars,
                   attemptVars, tallyVars>>

\* the millisecond clock advances while loop() runs
Tick ==
    /\ workload = "connectivity"
    /\ pc = "loop"
    /\ now' = (now + 1) % TimeMod
    /\ sinceAttempt' = Older(sinceAttempt, 1)
    /\ UNCHANGED <<pc, WIFI_STA_SSID, workload, stripVars, serialVars, httpVars,
                   wifiVars, histVars, retry, tallyVars>>

Next ==
    \/ SetupStrip
    \/ ConnectBegin
    \/ ConnectWait
    \/ ConnectResult
    \/ SetupServer
    \/ Loop
    \/ LinkUp
    \/ LinkDown
    \/ Tick

Spec == Init /\ [][Next]_vars

(***************************************************************************)
(* The runs about connectivity, with the scheduling of setup(): each of     *)
(* its statements is followed by the next, and a turn of the wait loop of   *)
(* connectWifiStation by the next test of its condition.                    *)
(***************************************************************************)
InitConnectivity == Init /\ workload = "connectivity"

Setup == SetupStrip \/ ConnectBegin \/ ConnectWait \/ ConnectResult \/ SetupServer

LiveSpec ==
    /\ InitConnectivity
    /\ [][Next]_vars
    /\ WF_vars(Setup)

(***************************************************************************)
(* Properties.  Statements about "every command" are evaluated in          *)
(* reachable states of loop() on every text of CommandTexts and every       *)
(* payload of FramePayloads, whether or not the host of the run sends it.   *)
(* The statements that hold are evaluated where loop() is at rest: a turn   *)
(* of loop() with nothing to read changes neither the strip nor the link,   *)
(* so every strip loop() can reach is also reached at rest.                 *)
(***************************************************************************)
InLoop == pc = "loop"

\* loop() at rest: nothing buffered, nothing waiting, nothing just replied
Idle ==
    /\ InLoop
    /\ line = <<>>
    /\ rx = <<>>
    /\ serialOut = <<>>
    /\ httpResp = NoResp

\* the kind of every command text, and the integers sscanf finds after its
\* keyword (both fixed by the text alone)
KindOf == [c \in CommandTexts |-> CommandKind(c)]

ArgsOf(c, keyword, n) == Sscanf(ToUpperCase(Trim(c)), keyword, n)

IntsOf ==
    [c \in CommandTexts |->
        IF KindOf[c] = "BRIGHT" THEN ArgsOf(c, kBRIGHT, 1)
        ELSE IF KindOf[c] = "FILL" THEN ArgsOf(c, kFILL, 3)
        ELSE IF KindOf[c] = "SET" THEN ArgsOf(c, kSET, 4)
        ELSE IF KindOf[c] = "SETN" THEN ArgsOf(c, kSETN, 4)
        ELSE <<>>]

IsHexDigit(c) == c \in (DOMAIN DigitOf) \cup (DOMAIN UpperHexOf) \cup (DOMAIN LowerHexOf)

\* a payload that is not NUM_LEDS * 6 hex digits once trimmed
Malformed(p) ==
    \/ Len(Trim(p)) # NUM_LEDS * 6
    \/ \E i \in 1 .. Len(Trim(p)) : ~IsHexDigit(Trim(p)[i])

MalformedPayloads == {p \in FramePayloads : Malformed(p)}

\* C1: a FRAME command or POST /frame body whose payload has the wrong
\* length or holds a non-hex character fails and leaves the pixel buffer and
\* the flushed output as they were.
C1_FrameAllOrNothing ==
    InLoop =>
        \A p \in MalformedPayloads :
            LET c == runCommand(kFRAME \o p, Strip)
                h == handleFrame(FrameReq(p), Strip)
            IN  /\ ~StartsWith(c.resp, kOK)
                /\ c.st = Strip
                /\ h.resp.code = 400
                /\ h.st = Strip

\* C2: no part of a serial line longer than MAX_COMMAND_CHARS is ever
\* passed to runCommand.
C2_LongLineDiscarded == ~ranTail

\* C3: in every turn of loop(), server.handleClient() runs only if the
\* Wi-Fi link is connected at that turn's check.
C3_HandledOnlyWhenConnected == gate.handled => gate.link = "WL_CONNECTED"

\* C4 as stated: after a successful SETN of pixel i, the displayed value of
\* pixel i is its displayed value from before the SETN at every point up to
\* the first SHOW that is executed.
C4_HiddenUntilShow ==
    \A i \in Leds : setnSinceShow[i] # <<>> => shown.px[i] = setnSinceShow[i]

\* C4, amended: after a successful SETN of pixel i, the displayed value of
\* pixel i is its displayed value from before the SETN at every point up to
\* the next command that flushes the strip: SHOW, or a successful BRIGHT,
\* FILL, SET, CLEAR or FRAME.
C4_HiddenUntilFlush ==
    \A i \in Leds : setnSinceFlush[i] # <<>> => shown.px[i] = setnSinceFlush[i]

\* a SETN has written a pixel, a PING has run since, and the pixel is hidden
C4_Witness ==
    /\ ranSerial = "PING"
    /\ \E i \in Leds : setnSinceFlush[i] # <<>> /\ leds[i] # shown.px[i]

FlushTexts == {c \in CommandTexts : KindOf[c] \in FlushKinds}

\* C5: after a successful BRIGHT, FILL, SET, SHOW, CLEAR or FRAME the
\* flushed pixels equal the buffer (at the current brightness); SET shows its pixel's new colour, FILL
\* makes every pixel the clamped colour, CLEAR makes every pixel black.
C5_FlushedAfterSuccess ==
    Idle =>
        /\ \A c \in FlushTexts :
              LET r == runCommand(c, Strip)
                  a == IntsOf[c]
              IN  StartsWith(r.resp, kOK) =>
                      /\ r.st.shown.px = r.st.leds
                      /\ r.st.shown.scale = r.st.bright
                      /\ KindOf[c] = "SET" =>
                            r.st.shown.px[a[1]]
                                = <<Clamped(a[2]), Clamped(a[3]), Clamped(a[4])>>
                      /\ KindOf[c] = "FILL" =>
                            \A i \in Leds :
                                r.st.shown.px[i]
                                    = <<Clamped(a[1]), Clamped(a[2]), Clamped(a[3])>>
                      /\ KindOf[c] = "CLEAR" =>
                            \A i \in Leds : r.st.shown.px[i] = Black
        /\ \A p \in FramePayloads :
              LET h == handleFrame(FrameReq(p), Strip)
              IN  h.resp.code = 200 => h.st.shown.px = h.st.leds

\* SET 0 1 2 3 has run after a FILL: pixel 0 shows its new colour
C5_Witness ==
    /\ ranSerial = "SET"
    /\ serialOut = Println(kOK)
    /\ shown.px = leds
    /\ leds[0] = ColorB
    /\ leds[NUM_LEDS - 1] = ColorA

\* the SET and SETN texts with four integers and an index outside the strip
OutOfRangeTexts ==
    {c \in CommandTexts :
        KindOf[c] \in {"SET", "SETN"} /\ Len(IntsOf[c]) = 4 /\ IntsOf[c][1] \notin Leds}

\* C6: SET and SETN with four integer arguments and an index outside
\* [0, NUM_LEDS) reply ERR index out of range, write nothing and flush
\* nothing; the buffer never holds an element outside [0, NUM_LEDS).
C6_IndexValidated ==
    /\ DOMAIN leds = Leds
    /\ DOMAIN shown.px = Leds
    /\ Idle =>
          \A c \in OutOfRangeTexts :
              LET r == runCommand(c, Strip)
              IN  r.resp = rIndexRange /\ r.st = Strip

\* a SET with index NUM_LEDS has been answered, with a coloured strip
C6_Witness ==
    /\ ranSerial = "SET"
    /\ serialOut = replyErr(Substring(rIndexRange, 4))
    /\ leds[0] = ColorB
    /\ shown.px = leds

\* the words of s, split at white space
RECURSIVE WordEnd(_, _)
WordEnd(s, p) == IF p <= Len(s) /\ ~IsSpace(s[p]) THEN WordEnd(s, p + 1) ELSE p

RECURSIVE WordsFrom(_, _)
WordsFrom(s, p) ==
    IF SkipSpace(s, p) > Len(s) THEN <<>>
    ELSE <<SubSeq(s, SkipSpace(s, p), WordEnd(s, SkipSpace(s, p)) - 1)>>
            \o WordsFrom(s, WordEnd(s, SkipSpace(s, p)))

\* an optional sign and one or more digits
IsIntWord(w) ==
    LET d == IF w[1] \in {"-", "+"} THEN 2 ELSE 1
    IN  Len(w) >= d /\ \A i \in d .. Len(w) : IsDigit(w[i])

\* the number of integers each keyword takes
Arity == [BRIGHT |-> 1, FILL |-> 3, SET |-> 4, SETN |-> 4]

KeywordOf(w) ==
    IF w \o <<" ">> = kBRIGHT THEN "BRIGHT"
    ELSE IF w \o <<" ">> = kFILL THEN "FILL"
    ELSE IF w \o <<" ">> = kSET THEN "SET"
    ELSE IF w \o <<" ">> = kSETN THEN "SETN"
    ELSE "OTHER"

\* a BRIGHT, FILL, SET or SETN line whose arguments are not exactly the
\* required number of integers
BadArguments(c) ==
    LET w == WordsFrom(ToUpperCase(Trim(c)), 1)
    IN  /\ Len(w) >= 1
        /\ KeywordOf(w[1]) # "OTHER"
        /\ \/ Len(w) - 1 # Arity[KeywordOf(w[1])]
           \/ \E i \in 2 .. Len(w) : ~IsIntWord(w[i])

BadArgumentTexts == {c \in CommandTexts : BadArguments(c)}

\* C7: a BRIGHT, FILL, SET or SETN line with too few, too many or
\* non-numeric arguments gets an ERR reply and changes neither the buffer,
\* the brightness nor the flushed output.
C7_BadArgumentsRejected ==
    InLoop =>
        \A c \in BadArgumentTexts :
            LET r == runCommand(c, Strip)
            IN  StartsWith(r.resp, kERR) /\ r.st = Strip

\* C8: POST /frame with body p and the command FRAME p leave the same
\* strip and give the same response text and the same success or failure.
C8_PostFrameIsFrameCommand ==
    InLoop =>
        \A p \in FramePayloads :
            LET c == runCommand(kFRAME \o p, Strip)
                h == handleFrame(FrameReq(p), Strip)
            IN  /\ h.st = c.st
                /\ h.resp.body = c.resp
                /\ (h.resp.code = 200) <=> StartsWith(c.resp, kOK)

\* the command text c as a serial line into an empty line buffer, and as
\* GET /cmd?q=c: the same bytes in reply, the same strip, and status 200
\* exactly for an OK reply
SameOnBothTransports(c) ==
    LET s == serialStep(<<>>, c \o Nl, Strip)
        h == handleCmd(CmdReq(c), Strip)
    IN  /\ s.printed = Println(h.resp.body)
        /\ s.st = h.st
        /\ h.resp.code \in {200, 400}
        /\ (h.resp.code = 200) <=> StartsWith(h.resp.body, kOK)

\* loop() is at rest and the server has been started
BothTransportsLive == Idle /\ httpServerStarted

\* C9 as stated: every command text gets the same reply and has the same
\* effect on both transports.
C9_TransportIndependent ==
    BothTransportsLive => \A c \in CommandTexts : SameOnBothTransports(c)

\* a text a serial line can carry whole and a query can carry at all
FitsBothTransports(c) ==
    /\ Len(c) >= 1
    /\ Len(c) <= MAX_COMMAND_CHARS
    /\ \A i \in 1 .. Len(c) : c[i] \notin {"\r", "\n"}

FittingTexts == {c \in CommandTexts : FitsBothTransports(c)}

\* C9, amended: every non-empty command text of at most MAX_COMMAND_CHARS
\* characters without CR or LF gets the same reply and has the same effect
\* on both transports.
C9_TransportIndependentFitting ==
    BothTransportsLive => \A c \in FittingTexts : SameOnBothTransports(c)

\* GET /cmd?q=FILL 300 -5 10 has been answered 200 OK and has filled the strip
C9_Witness ==
    /\ httpResp.req = CmdReq(kFILL \o Args(<<300, -5, 10>>))
    /\ httpResp.code = 200
    /\ httpResp.body = kOK
    /\ \A i \in Leds : leds[i] = ColorA /\ shown.px[i] = ColorA

\* a complete line c arriving with Serial and the line buffer empty is run
\* and answered in that turn of loop()
LineIsServed(c) ==
    LET t == loopTurn(NoReq, c \o Nl)
        r == runCommand(c, Strip)
    IN  /\ t.serialOut = printResponse(r.resp)
        /\ t.st = r.st
        /\ t.ranSerial # "none"
        /\ t.line = <<>>
        /\ t.rx = <<>>

\* C10: without credentials no association is attempted, the link is never
\* connected, the server is never started and handles nothing, the warning
\* is printed exactly once, and complete serial lines are run and answered.
C10_NoCredentials ==
    WIFI_STA_SSID = <<>> =>
        /\ wifiStatus = "WL_NO_SHIELD"
        /\ ~httpServerStarted
        /\ ~gate.handled
        /\ httpResp = NoResp
        /\ warned = (IF pc \in {"setup", "connect"} THEN 0 ELSE 1)
        /\ Idle => \A c \in SentLines : LineIsServed(c)

\* without credentials, after a clock tick in loop(), a FILL has been served
C10_Witness ==
    /\ WIFI_STA_SSID = <<>>
    /\ InLoop
    /\ now >= WIFI_RETRY_INTERVAL_MS
    /\ warned = 1
    /\ ranSerial = "FILL"
    /\ serialOut = Println(kOK)
    /\ \A i \in Leds : shown.px[i] = ColorA

\* C11: every retry of maintainWifiConnection comes at least
\* WIFI_RETRY_INTERVAL_MS after the association attempt before it (the
\* attempt of setup or the previous retry), also when the clock has wrapped,
\* and no retry is made while the link is connected.
C11_RetriesRateLimited ==
    retry.made =>
        /\ retry.age >= WIFI_RETRY_INTERVAL_MS
        /\ retry.link # "WL_CONNECTED"
\* the text of the line that waits: the line buffer and the bytes up to the
\* first newline
FirstNl(bytes) == SetMin({i \in 1 .. Len(bytes) : bytes[i] = "\n"})

PendingLine == Trim(line \o SubSeq(rx, 1, FirstNl(rx) - 1))

EndsWith(s, t) == Len(s) >= Len(t) /\ SubSeq(s, Len(s) - Len(t) + 1, Len(s)) = t

\* a step of loop() that takes bytes from Serial while a complete line
\* waits there runs that line and prints its reply
PendingLineIsRun ==
    (InLoop /\ HasLine(rx) /\ rx' # rx) =>
        /\ ranSerial' = CommandKind(PendingLine)
        /\ EndsWith(serialOut', printResponse(runCommand(PendingLine, Strip).resp))
        /\ rx' = SubSeq(rx, FirstNl(rx) + 1, Len(rx))
        /\ line' = <<>>

\* C12: once setup() has completed, every turn of loop() reaches the
\* handling of serial lines: no turn leaves a complete line waiting in
\* Serial without running one, and the line that waits is run and answered
\* by the next turn, whatever the Wi-Fi state is or becomes.
C12_NeverBlocked ==
    /\ []~stalled
    /\ [][PendingLineIsRun]_vars

\* the second line of a pair has been run in a turn that also retried the
\* association, the server never having been started
C12_Witness ==
    /\ ranSerial = "SHOW"
    /\ serialOut = Println(mRetrying) \o Println(kOK)
    /\ retry.made
    /\ ~httpServerStarted
    /\ rx = <<>>
\* the strip after the frame red, green, blue, ... has been applied and shown
RgbShown(st) ==
    /\ \A i \in Leds : st.leds[i] = RgbCycle[(i % 3) + 1]
    /\ st.shown.px = st.leds
    /\ st.bright = brightness

RoundTripCases ==
    { [colors |-> cs, text |-> kFRAME \o EncodeFrame(cs, digits)] :
        cs \in PaletteFrames, digits \in {UpperHexDigits, LowerHexDigits} }

\* C14: from every strip state, the FRAME command whose payload is the hex
\* encoding of NUM_LEDS colours (upper- or lower-case digits) replies OK and
\* leaves pixel i of the buffer and of the flushed output equal to colour i.
C14_FrameRoundTrip ==
    Idle =>
        \A case \in RoundTripCases :
            LET r == runCommand(case.text, Strip)
            IN  /\ r.resp = kOK
                /\ \A i \in Leds :
                      /\ r.st.leds[i] = case.colors[i]
                      /\ r.st.shown.px[i] = case.colors[i]
                /\ DOMAIN r.st.leds = Leds

\* the lower-case encoding of the sample frame has been run from Serial
C14_Witness ==
    /\ ranSerial = "FRAME"
    /\ serialOut = Println(kOK)
    /\ leds = SampleFrame
    /\ shown.px = SampleFrame
\* the integers clamp8 is tried on, and the argument values used in command
\* lines: below, inside and above [0,255] (all fit an int)
ClampRange == -300 .. 600

ArgSamples == {-5, 10, 300}

ArgTriples == {<<300, -5, 10>>, <<-5, 10, 300>>, <<10, 300, -5>>}

ClampLaws ==
    \A c \in ClampRange :
        /\ clamp8(c) \in 0 .. 255
        /\ c \in 0 .. 255 => clamp8(c) = c
        /\ c < 0 => clamp8(c) = 0
        /\ c > 255 => clamp8(c) = 255
        /\ clamp8(clamp8(c)) = clamp8(c)

ClampCases ==
    { [kind |-> "FILL", args |-> <<r, g, b>>, text |-> kFILL \o Args(<<r, g, b>>)] :
        r \in ArgSamples, g \in ArgSamples, b \in ArgSamples }
    \cup { [kind |-> "SET", args |-> <<i>> \o t, text |-> kSET \o Args(<<i>> \o t)] :
             i \in Leds, t \in ArgTriples }
    \cup { [kind |-> "SETN", args |-> <<i>> \o t, text |-> kSETN \o Args(<<i>> \o t)] :
             i \in Leds, t \in ArgTriples }
    \cup { [kind |-> "BRIGHT", args |-> <<b>>, text |-> kBRIGHT \o Args(<<b>>)] :
             b \in ArgSamples \cup {-1, 0, 255, 256} }

ClampedColor(a, k) == <<Clamped(a[k]), Clamped(a[k + 1]), Clamped(a[k + 2])>>

\* what a command with in- and out-of-range values leaves: the clamped
\* values where it writes, everything else as it was
StoresClamped(case, st, after) ==
    IF case.kind = "FILL"
    THEN /\ \A i \in Leds : after.leds[i] = ClampedColor(case.args, 1)
         /\ after.bright = st.bright
    ELSE IF case.kind = "BRIGHT"
    THEN /\ after.bright = Clamped(case.args[1])
         /\ after.leds = st.leds
    ELSE /\ after.leds = [st.leds EXCEPT ![case.args[1]] = ClampedColor(case.args, 2)]
         /\ after.bright = st.bright

\* C15: clamp8 maps every integer into [0,255], keeps the values already
\* there, sends negatives to 0 and values above 255 to 255 and is
\* idempotent; FILL, SET and SETN with a valid index and BRIGHT reply OK
\* for every argument value and store the clamped values.
C15_ClampedNeverRejected ==
    /\ ClampLaws
    /\ Idle =>
          \A case \in ClampCases :
              LET r == runCommand(case.text, Strip)
              IN  r.resp = kOK /\ StoresClamped(case, Strip, r.st)

\* FILL 300 -5 10 has been run after BRIGHT 300: every pixel is (255,0,10)
C15_Witness ==
    /\ ranSerial = "FILL"
    /\ serialOut = Println(kOK)
    /\ brightness = 255
    /\ \A i \in Leds : leds[i] = <<255, 0, 10>>
\* the reply of INFO for brightness b
InfoReply(b) ==
    <<"O","K"," ","N","U","M","_","L","E","D","S"," ">> \o Num(NUM_LEDS)
        \o <<" ","B","R","I","G","H","T"," ">> \o Num(b)

\* C16: after setup() the brightness is DEFAULT_BRIGHTNESS or the clamped
\* argument of the most recent successful BRIGHT; no other or failed command
\* and no Wi-Fi step changes it; INFO replies OK NUM_LEDS <n> BRIGHT <b>
\* with the current value and changes nothing.
C16_BrightnessSingleWriter ==
    /\ pc # "setup" => brightness = lastBright
    /\ Idle =>
          /\ \A c \in CommandTexts :
                LET r == runCommand(c, Strip)
                IN  (KindOf[c] # "BRIGHT" \/ ~StartsWith(r.resp, kOK))
                        => r.st.bright = brightness
          /\ \A c \in {kINFO, <<"i","n","f","o">>, <<" ">> \o kINFO \o <<" ">>} :
                runCommand(c, Strip) = Reply(InfoReply(lastBright), Strip)

\* INFO has reported the brightness 0 that BRIGHT -5 set
C16_Witness ==
    /\ ranSerial = "INFO"
    /\ serialOut = Println(InfoReply(0))
    /\ brightness = 0
    /\ lastBright = 0
\* PING followed by spaces up to the longest line allowed
PadLine == kPING \o Repeat(<<" ">>, MAX_COMMAND_CHARS - Len(kPING))

\* the lines of at most MAX_COMMAND_CHARS characters
ShortLines ==
    {c \in CommandTexts : Len(c) <= MAX_COMMAND_CHARS /\ ~HasLine(c)} \cup {PadLine}

\* one line that begins with OK or ERR, ended by CR LF
OneResponseLine(out) ==
    /\ Len(out) >= 2
    /\ SubSeq(out, Len(out) - 1, Len(out)) = <<"\r", "\n">>
    /\ ~HasLine(SubSeq(out, 1, Len(out) - 1))
    /\ StartsWith(out, kOK) \/ StartsWith(out, kERR)

\* the line c, ended by end, arrives together with a PING line: the turn
\* of loop() that reads c prints one response and empties the line buffer,
\* and the next turn answers the PING
ServedOnce(c, end) ==
    LET s == serialStep(<<>>, c \o end \o kPING \o Nl, Strip)
        t == serialStep(s.line, s.rest, s.st)
    IN  /\ s.ran # <<>>
        /\ OneResponseLine(s.printed)
        /\ s.line = <<>>
        /\ s.rest = kPING \o Nl
        /\ t.printed = Println(kOK)
        /\ t.line = <<>>
        /\ t.rest = <<>>

\* C17: every newline-terminated serial line of at most MAX_COMMAND_CHARS
\* characters gets exactly one response line, which begins with OK or ERR;
\* later lines are served, and the line buffer is empty when the next line
\* starts.
C17_OneResponsePerLine ==
    /\ ranSerial # "none" => line = <<>>
    /\ Idle =>
          \A c \in ShortLines :
              ServedOnce(c, Nl) /\ ServedOnce(c, <<"\r", "\n">>)

\* an unknown line has been answered with one ERR line
C17_Witness ==
    /\ ranSerial = "OTHER"
    /\ serialOut = kERR \o Println(<<"u","n","k","n","o","w","n"," ","c","o","m","m","a","n","d">>)
    /\ line = <<>>
    /\ rx = <<>>
\* unsigned subtraction gives the time that has passed, whatever the start
ElapsedAcrossWrap ==
    \A s \in 0 .. (TimeMod - 1) : \A d \in 0 .. (TimeMod - 1) :
        Elapsed((s + d) % TimeMod, s) = d

\* the wait loop is left when the link is connected or the timeout is over,
\* and wifiConnected says which
WaitEndsRight ==
    (pc = "wait" /\ pc' = "routes") =>
        /\ wifiStatus = "WL_CONNECTED"
              \/ Elapsed(now, startedAt) >= WIFI_CONNECT_TIMEOUT_MS
        /\ wifiConnected' = (wifiStatus = "WL_CONNECTED")

\* setup() ends with READY, the server started exactly if the wait ended
\* connected
ReadyRight ==
    (pc = "routes" /\ pc' = "loop") =>
        /\ httpServerStarted' = wifiConnected
        /\ StartsWith(serialOut', Println(mReady))

\* C18: with credentials, the wait loop of connectWifiStation ends as soon
\* as the link is connected or WIFI_CONNECT_TIMEOUT_MS have passed since
\* the attempt began (also across wrap-around of the clock); setup() then
\* reaches READY, with the server started if and only if the link was
\* connected when the wait ended.
C18_InitialAttemptBounded ==
    /\ [](ElapsedAcrossWrap)
    /\ [](pc = "wait" =>
            Elapsed(now, startedAt) < WIFI_CONNECT_TIMEOUT_MS + ConnectPoll)
    /\ [][WaitEndsRight]_vars
    /\ [][ReadyRight]_vars
    /\ (pc = "wait") ~> (pc = "loop")

\* setup() has ended after a wait that ran into the timeout
C18_Witness ==
    /\ pc = "loop"
    /\ WIFI_STA_SSID # <<>>
    /\ ~wifiConnected
    /\ ~httpServerStarted
    /\ Elapsed(now, startedAt) >= WIFI_CONNECT_TIMEOUT_MS
    /\ serialOut = Println(mReady) \o Println(mHttpDisabled)
\* a turn of loop() that finds the link connected and the request req at
\* the server: the server is started, or was, and the request is answered
AnsweredInTurn(req) ==
    LET t == loopTurn(req, <<>>)
    IN  /\ t.gate = [handled |-> TRUE, link |-> "WL_CONNECTED"]
        /\ t.httpServerStarted
        /\ t.httpResp.req = req
        /\ t.httpResp.code = 200

\* C19: in every turn of loop() that finds the link connected at its
\* check the server has been started, in that turn if not before, and
\* server.handleClient() runs and answers what is pending, also when the
\* attempt of setup() failed and a retry succeeded later.
C19_ServedWheneverLinkUp ==
    /\ gate.link = "WL_CONNECTED" => gate.handled /\ httpServerStarted
    /\ (InLoop /\ wifiStatus = "WL_CONNECTED" /\ line = <<>> /\ rx = <<>>) =>
          AnsweredInTurn(RootReq) /\ AnsweredInTurn(CmdReq(kPING))

\* the attempt of setup() failed, a later turn found the link connected and
\* started the server, and a PING request has been answered
C19_Witness ==
    /\ ~wifiConnected
    /\ WIFI_STA_SSID # <<>>
    /\ httpServerStarted
    /\ gate = [handled |-> TRUE, link |-> "WL_CONNECTED"]
    /\ httpResp.req = CmdReq(kPING)
    /\ httpResp.code = 200
\* the latch is set only by setup() after connectWifiStation returned true,
\* or by a turn of loop() whose check found the link connected
SetOnlyWhenConnected ==
    (~httpServerStarted /\ httpServerStarted') =>
        \/ pc = "routes" /\ wifiConnected
        \/ pc = "loop" /\ gate'.link = "WL_CONNECTED"

NeverReset == httpServerStarted => httpServerStarted'

\* C20: httpServerStarted is false until setup() has connected, becomes
\* true only where the link has been observed connected, is never reset,
\* and server.begin() is called at most once.
C20_ServerStartLatch ==
    /\ [](pc \in {"setup", "connect", "wait", "routes"} => ~httpServerStarted)
    /\ [](begins = IF httpServerStarted THEN 1 ELSE 0)
    /\ [][SetOnlyWhenConnected]_vars
    /\ [][NeverReset]_vars

\* the server was started once, the link has been lost since, and loop()
\* has made a turn with the latch still set
C20_Witness ==
    /\ httpServerStarted
    /\ begins = 1
    /\ wifiStatus = "WL_DISCONNECTED"
    /\ gate = [handled |-> TRUE, link |-> "WL_DISCONNECTED"]
====
